---- MODULE Spec2Model ----
(***************************************************************************)
(* Achordion (NY75B/features/achordion.c): the chord-resolution engine for *)
(* dual-role (tap-hold) keys.                                              *)
(*                                                                         *)
(* The engine is re-entrant: recursively_process_record() calls the host's *)
(* process_record(), which calls process_achordion() again.  The call      *)
(* structure is therefore modelled explicitly: `todo' is the sequence of   *)
(* calls still to be executed by the handler that is running (its head is  *)
(* the program position), and `todo = <<>>' means that control is back in  *)
(* the host's polling loop.                                                *)
(*                                                                         *)
(* achordion.c is present up to the last replay of settle_as_tap();        *)
(* process_achordion() and achordion_task() are modelled from section 4.1  *)
(* of the specification.                                                   *)
(***************************************************************************)
EXTENDS Integers, Sequences, FiniteSets, TLC

VARIABLES
  achordion_state,    \* achordion.c:58
  tap_hold_keycode,   \* achordion.c:29
  tap_hold_record,    \* achordion.c:28
  hold_timer,         \* achordion.c:31
  eager_mods,         \* achordion.c:33
  pressed_another_key_before_release,  \* achordion.c:35
  streak_timer,       \* achordion.c:38
  cfg,                \* build configuration (ACHORDION_STREAK, TAP_CODE_DELAY)
  now,                \* the host's timer
  down,               \* keys physically held down
  todo,               \* calls the running handler still has to make
  out,                \* what the host has received in this press cycle
  hist,               \* the key events and settling ticks of this press cycle
  last                \* the last call made by the polling loop

engine == <<achordion_state, tap_hold_keycode, tap_hold_record, hold_timer,
            eager_mods, pressed_another_key_before_release, streak_timer>>

vars == <<achordion_state, tap_hold_keycode, tap_hold_record, hold_timer,
          eager_mods, pressed_another_key_before_release, streak_timer,
          cfg, now, down, todo, out, hist, last>>

----------------------------------------------------------------------------
(* Bounds of the model. *)

MaxTime == 4          \* the timer runs from 0 to MaxTime
MaxDt == 2            \* largest time step between two calls of the loop
MaxCycleEvents == 4   \* key events and settling ticks in one press cycle
MaxDepth == 3         \* nested recursively_process_record() calls
MaxStamp == 15        \* timestamps tried: MaxStamp + 1 at each end of the range

\* Largest value of a uint16_t (streak_timer, record->event.time).
UINT16_MAX == 65535

----------------------------------------------------------------------------
(* The host: keys and policies (specification, section 6). *)

KC_NO == "KC_NO"

DualRoleKeys == {"MT_A", "MT_B"}
PlainKeys == {"K_S", "K_D"}
Keys == DualRoleKeys \cup PlainKeys

\* is_dual_role_key(keycode)
is_dual_role_key(keycode) == keycode \in DualRoleKeys

\* The modifier bitset of a dual-role key's hold action (MOD_LSFT, MOD_LCTL).
hold_mods(keycode) == IF keycode = "MT_A" THEN 2 ELSE 1

\* eager_mods_enabled(pending_key)
eager_mods_enabled(keycode) == keycode = "MT_A"

\* hold_timeout(pending_key)
hold_timeout(keycode) == IF keycode = "MT_A" THEN 2 ELSE 3

\* chord_eligible(pending_key, other_key): keys on opposite hands.
Hand(keycode) == IF keycode \in {"MT_A", "K_S"} THEN "left" ELSE "right"
chord_eligible(pending, other) == Hand(pending) # Hand(other)

\* streak_continue(keycode)
achordion_streak_continue(keycode) == keycode \in PlainKeys

----------------------------------------------------------------------------
(* Records, calls and outputs. *)

\* keyrecord_t: the key (its position), event.pressed, event.time,
\* tap.count and tap.interrupted.
Record(key, pressed, time, count, interrupted) ==
  [key |-> key, pressed |-> pressed, time |-> time, count |-> count,
   interrupted |-> interrupted]

ZeroRecord == Record(KC_NO, FALSE, 0, 0, FALSE)

\* One pending call: op names the function, rec its record argument, st its
\* state argument, orig tells an event of the matrix from a replayed one;
\* from is the state in which the call was made, where it is kept.
Call(op, rec, st, orig) ==
  [op |-> op, rec |-> rec, st |-> st, orig |-> orig, from |-> "-"]
\* The return of recursively_process_record(record, st), called in state from.
Return(st, from) ==
  [op |-> "rpr_exit", rec |-> ZeroRecord, st |-> st, orig |-> FALSE,
   from |-> from]
Do(op) == Call(op, ZeroRecord, "-", FALSE)

\* One thing received by the host.
Output(kind, rec, mods, st, orig) ==
  [kind |-> kind, key |-> rec.key, pressed |-> rec.pressed,
   count |-> rec.count, interrupted |-> rec.interrupted, mods |-> mods,
   st |-> st, orig |-> orig]

Idle == todo = <<>>
At(op) == todo # <<>> /\ Head(todo).op = op

\* Number of recursively_process_record() calls in progress.
Depth == Cardinality({i \in DOMAIN todo : todo[i].op = "rpr_exit"})

States == {"UNSETTLED", "RELEASED", "TAPPING", "HOLDING", "RECURSING"}

----------------------------------------------------------------------------
(* State after power-up. *)

\* Mutant: achordion_state has no initialiser, so it starts as the first
\* enumerator, STATE_UNSETTLED.
Init_ZeroState ==
  /\ achordion_state = "UNSETTLED"
  /\ tap_hold_keycode = KC_NO
  /\ tap_hold_record = ZeroRecord
  /\ hold_timer = 0
  /\ eager_mods = 0
  /\ pressed_another_key_before_release = FALSE
  /\ streak_timer = 0
  /\ cfg \in [streak : BOOLEAN, tap_code_delay : 0..1]
  /\ now = 0
  /\ down = {}
  /\ todo = <<>>
  /\ out = <<>>
  /\ hist = <<>>
  /\ last = "none"

Init ==
  /\ achordion_state = "RELEASED"
  /\ tap_hold_keycode = KC_NO
  /\ tap_hold_record = ZeroRecord
  /\ hold_timer = 0
  /\ eager_mods = 0
  /\ pressed_another_key_before_release = FALSE
  /\ streak_timer = 0
  /\ cfg \in [streak : BOOLEAN, tap_code_delay : 0..1]
  /\ now = 0
  /\ down = {}
  /\ todo = <<>>
  /\ out = <<>>
  /\ hist = <<>>
  /\ last = "none"

----------------------------------------------------------------------------
(* The functions of achordion.c. *)

Push(calls) == calls \o Tail(todo)
Emit(o) == Append(out, o)

\* update_streak_timer(keycode, record): `record->event.time | 1' or 0.
\* Mutant: the timestamp is stored as it is.
BitOr1_Plain(t) == t
BitOr1(t) == IF t % 2 = 1 THEN t ELSE t + 1
update_streak_timer(keycode, record) ==
  IF achordion_streak_continue(keycode) THEN BitOr1(record.time) % (UINT16_MAX + 1) ELSE 0

\* process_eager_mods_action(): process_action() with the mod-tap action of
\* eager_mods on tap_hold_record; it does not go through the event pipeline.
process_eager_mods_action ==
  /\ At("process_eager_mods_action")
  /\ out' = Emit(Output("ACTION_MODS_TAP_KEY", tap_hold_record, eager_mods,
                        achordion_state, FALSE))
  /\ todo' = Tail(todo)
  /\ UNCHANGED <<engine, cfg, now, down, hist, last>>

\* recursively_process_record(record, state), up to its call of
\* process_record(): the state becomes RECURSING and the host pipeline is
\* entered with tap_hold_record, which calls process_achordion() again.
\* (The auto-mouse key tracker saved and restored around the call is state
\* of the pointing device, not of the engine.)
\* Mutant: the state is not set before process_record() is called.
StateDuringReplay_Unset == achordion_state
StateDuringReplay == "RECURSING"
recursively_process_record ==
  /\ At("recursively_process_record")
  /\ Depth < MaxDepth
  /\ achordion_state' = StateDuringReplay
  /\ todo' = Push(<<Call("process_achordion", tap_hold_record, "-", FALSE),
                    Return(Head(todo).st, achordion_state)>>)
  /\ UNCHANGED <<tap_hold_keycode, tap_hold_record, hold_timer, eager_mods,
                 pressed_another_key_before_release, streak_timer,
                 cfg, now, down, out, hist, last>>

\* recursively_process_record(record, state), after process_record() has
\* returned: `achordion_state = state'.
\* Mutant: the state argument is ignored and the engine is made inactive.
StateAfterReplay_Released(state) == "RELEASED"
\* Mutant: the state is not restored after process_record() has returned.
StateAfterReplay_Stuck(state) == "RECURSING"
StateAfterReplay(state) == state
recursively_process_record_return ==
  /\ At("rpr_exit")
  /\ achordion_state' = StateAfterReplay(Head(todo).st)
  /\ todo' = Tail(todo)
  /\ UNCHANGED <<tap_hold_keycode, tap_hold_record, hold_timer, eager_mods,
                 pressed_another_key_before_release, streak_timer,
                 cfg, now, down, out, hist, last>>

\* settle_as_hold()
\* Mutant: the test of eager_mods is inverted.
HoldNeedsNoEvent_Inverted == eager_mods = 0
HoldNeedsNoEvent == eager_mods # 0
\* Mutant: an eager hold is recorded as a tap.
StateOfEagerHold_Tapping == "TAPPING"
StateOfEagerHold == "HOLDING"
settle_as_hold ==
  /\ At("settle_as_hold")
  /\ IF HoldNeedsNoEvent
       THEN /\ achordion_state' = StateOfEagerHold
            /\ todo' = Tail(todo)
       ELSE /\ achordion_state' = achordion_state
            /\ todo' = Push(<<Call("recursively_process_record", ZeroRecord,
                                   "HOLDING", FALSE)>>)
  /\ UNCHANGED <<tap_hold_keycode, tap_hold_record, hold_timer, eager_mods,
                 pressed_another_key_before_release, streak_timer,
                 cfg, now, down, out, hist, last>>

\* settle_as_tap(), up to the replay of the tap press: the eager mods are
\* released with a plain ACTION_MODS and cleared, the record is revised as a
\* tap and replayed.  (neutralize_flashing_modifiers(), built only with Retro
\* Tapping and a dummy neutralizer keycode, acts on the host's mods alone.)
\* Mutant: the record is replayed without being revised as a tap.
TapRecord_NotRevised(record) == [record EXCEPT !.pressed = TRUE]
\* Mutant: the revised record is not marked as interrupted.
TapRecord_NotInterrupted(record) ==
  [record EXCEPT !.pressed = TRUE, !.count = 1]
TapRecord(record) ==
  [record EXCEPT !.pressed = TRUE, !.count = 1, !.interrupted = TRUE]
\* Mutant: the eager mods are released but not cleared.
EagerModsAfterTap_Kept == eager_mods
EagerModsAfterTap == 0
\* Mutant: the tap press is replayed with the state argument of a hold.
StateOfTapPress_Holding == "HOLDING"
StateOfTapPress == "TAPPING"
settle_as_tap ==
  /\ At("settle_as_tap")
  /\ IF eager_mods # 0
       THEN /\ out' = Emit(Output("ACTION_MODS",
                                  [tap_hold_record EXCEPT !.pressed = FALSE],
                                  eager_mods, achordion_state, FALSE))
            /\ eager_mods' = EagerModsAfterTap
       ELSE UNCHANGED <<out, eager_mods>>
  /\ tap_hold_record' = TapRecord(tap_hold_record)
  /\ todo' = Push(<<Call("recursively_process_record", ZeroRecord,
                         StateOfTapPress, FALSE),
                    Do("settle_as_tap_flush")>>)
  /\ UNCHANGED <<achordion_state, tap_hold_keycode, hold_timer,
                 pressed_another_key_before_release, streak_timer,
                 cfg, now, down, hist, last>>

\* settle_as_tap(), between the two replays: send_keyboard_report(),
\* wait_ms(TAP_CODE_DELAY) when TAP_CODE_DELAY > 0, and
\* `tap_hold_record.event.pressed = false'.
\* Mutant: the record is still a press when it is replayed again.
TapReleaseRecord_StillPressed(record) == record
TapReleaseRecord(record) == [record EXCEPT !.pressed = FALSE]
settle_as_tap_flush ==
  /\ At("settle_as_tap_flush")
  /\ out' = (IF cfg.tap_code_delay > 0
               THEN Append(Emit(Output("send_keyboard_report", ZeroRecord, 0,
                                       achordion_state, FALSE)),
                           Output("wait_ms", ZeroRecord, 0, achordion_state,
                                  FALSE))
               ELSE Emit(Output("send_keyboard_report", ZeroRecord, 0,
                                achordion_state, FALSE)))
  /\ tap_hold_record' = TapReleaseRecord(tap_hold_record)
  /\ todo' = Push(<<Do("settle_as_tap_release")>>)
  /\ UNCHANGED <<achordion_state, tap_hold_keycode, hold_timer, eager_mods,
                 pressed_another_key_before_release, streak_timer,
                 cfg, now, down, hist, last>>

\* settle_as_tap(), its end: the tap release is replayed and the key is
\* settled as tapped.
settle_as_tap_release ==
  /\ At("settle_as_tap_release")
  /\ todo' = Push(<<Call("recursively_process_record", ZeroRecord, "TAPPING",
                         FALSE)>>)
  /\ UNCHANGED <<engine, cfg, now, down, out, hist, last>>

----------------------------------------------------------------------------
(* The host pipeline. *)

\* The host processes an event that process_achordion() let through: an event
\* of the matrix, or the record replayed by recursively_process_record().
host_process ==
  /\ At("host_process")
  /\ out' = Emit(Output("event", Head(todo).rec, 0, achordion_state,
                        Head(todo).orig))
  /\ todo' = Tail(todo)
  /\ UNCHANGED <<engine, cfg, now, down, hist, last>>

----------------------------------------------------------------------------
(* on_key_event(event): process_achordion(keycode, record), one definition *)
(* for each case of section 4.1.  `PassThrough' is "process the event      *)
(* normally"; a case that pushes no host_process suppresses the event.     *)

Intake == Head(todo)
PassThrough == Call("host_process", Intake.rec, "-", Intake.orig)

\* Mutant: the event is noted as another key before it passes through.
on_key_event_recursing_Noted ==
  /\ achordion_state = "RECURSING"
  /\ pressed_another_key_before_release' = TRUE
  /\ todo' = Push(<<PassThrough>>)
  /\ UNCHANGED <<achordion_state, tap_hold_keycode, tap_hold_record,
                 hold_timer, eager_mods, streak_timer, out>>

\* State is RECURSING: the event passes through unmodified.
on_key_event_recursing ==
  /\ achordion_state = "RECURSING"
  /\ todo' = Push(<<PassThrough>>)
  /\ UNCHANGED <<engine, out>>

\* Press of a dual-role key in RELEASED: it becomes the pending key.
IsLatch ==
  /\ achordion_state = "RELEASED"
  /\ Intake.rec.pressed
  /\ is_dual_role_key(Intake.rec.key)

on_key_event_latch ==
  /\ IsLatch
  /\ achordion_state' = "UNSETTLED"
  /\ tap_hold_keycode' = Intake.rec.key
  /\ tap_hold_record' = Intake.rec
  /\ hold_timer' = (Intake.rec.time + hold_timeout(Intake.rec.key)) % 65536
  /\ pressed_another_key_before_release' = FALSE
  /\ eager_mods' = IF eager_mods_enabled(Intake.rec.key)
                     THEN hold_mods(Intake.rec.key) ELSE 0
  /\ streak_timer' = IF cfg.streak
                       THEN update_streak_timer(Intake.rec.key, Intake.rec)
                       ELSE streak_timer
  /\ todo' = IF eager_mods_enabled(Intake.rec.key)
               THEN Push(<<Do("process_eager_mods_action")>>)
               ELSE Tail(todo)
  /\ UNCHANGED out

\* Release of the pending key: a tap if it is still unsettled, the release
\* of the hold if it is held, nothing if it was tapped; then the pending key
\* is cleared and the state is RELEASED.
IsReleaseOfPending ==
  /\ achordion_state \in {"UNSETTLED", "TAPPING", "HOLDING"}
  /\ ~Intake.rec.pressed
  /\ Intake.rec.key = tap_hold_keycode

on_key_event_release ==
  /\ IsReleaseOfPending
  /\ tap_hold_record' = IF achordion_state = "HOLDING"
                          THEN [tap_hold_record EXCEPT !.pressed = FALSE]
                          ELSE tap_hold_record
  /\ todo' = Push((CASE achordion_state = "UNSETTLED" ->
                          <<Do("settle_as_tap")>>
                     [] achordion_state = "HOLDING" /\ eager_mods # 0 ->
                          <<Do("process_eager_mods_action")>>
                     [] achordion_state = "HOLDING" /\ eager_mods = 0 ->
                          <<Call("recursively_process_record", ZeroRecord,
                                 "RELEASED", FALSE)>>
                     [] OTHER -> <<>>)
                  \o <<Do("release_pending")>>)
  /\ UNCHANGED <<achordion_state, tap_hold_keycode, hold_timer, eager_mods,
                 pressed_another_key_before_release, streak_timer, out>>

\* Press of another key in UNSETTLED: the pending key is settled as hold if
\* the chord is eligible and as tap if not, then the event proceeds.
\* Mutant: the release of another key counts as a chord too.
IsChord_AnyTransition ==
  /\ achordion_state = "UNSETTLED"
  /\ Intake.rec.key # tap_hold_keycode

IsChord ==
  /\ achordion_state = "UNSETTLED"
  /\ Intake.rec.pressed
  /\ Intake.rec.key # tap_hold_keycode

on_key_event_chord ==
  /\ IsChord
  /\ pressed_another_key_before_release' = TRUE
  /\ todo' = Push(<<IF chord_eligible(tap_hold_keycode, Intake.rec.key)
                      THEN Do("settle_as_hold") ELSE Do("settle_as_tap"),
                    PassThrough>>)
  /\ UNCHANGED <<achordion_state, tap_hold_keycode, tap_hold_record,
                 hold_timer, eager_mods, streak_timer, out>>

\* Every other event passes through unaffected.
on_key_event_other ==
  /\ achordion_state # "RECURSING"
  /\ ~IsLatch
  /\ ~IsReleaseOfPending
  /\ ~IsChord
  /\ todo' = Push(<<PassThrough>>)
  /\ UNCHANGED <<engine, out>>

process_achordion ==
  /\ At("process_achordion")
  /\ \/ on_key_event_recursing
     \/ on_key_event_latch
     \/ on_key_event_release
     \/ on_key_event_chord
     \/ on_key_event_other
  /\ UNCHANGED <<cfg, now, down, hist, last>>

\* The end of the release of the pending key: it is cleared and the state
\* is RELEASED.
release_pending ==
  /\ At("release_pending")
  /\ achordion_state' = "RELEASED"
  /\ tap_hold_keycode' = KC_NO
  /\ todo' = Tail(todo)
  /\ UNCHANGED <<tap_hold_record, hold_timer, eager_mods,
                 pressed_another_key_before_release, streak_timer,
                 cfg, now, down, out, hist, last>>

----------------------------------------------------------------------------
(* The polling loop: one call of on_key_event for each key transition and  *)
(* one call of tick for each scan.                                         *)

KeyTransition(key, pressed) ==
  [kind |-> "key", key |-> key, pressed |-> pressed]
SettlingTick == [kind |-> "tick", key |-> KC_NO, pressed |-> FALSE]

\* A press cycle starts with an event received in RELEASED; the record of
\* the previous cycle is dropped then.
Extend(log, e) == IF achordion_state = "RELEASED" THEN <<e>> ELSE Append(log, e)

KeyEvent(key, pressed, dt) ==
  /\ Idle
  /\ now + dt <= MaxTime
  /\ achordion_state # "RELEASED" => Len(hist) < MaxCycleEvents
  /\ IF pressed THEN key \notin down ELSE key \in down
  /\ now' = now + dt
  /\ down' = IF pressed THEN down \cup {key} ELSE down \ {key}
  /\ hist' = Extend(hist, KeyTransition(key, pressed))
  /\ out' = IF achordion_state = "RELEASED" THEN <<>> ELSE out
  /\ todo' = <<Call("process_achordion",
                    Record(key, pressed, now + dt, 0, FALSE), "-", TRUE)>>
  /\ last' = "key"
  /\ UNCHANGED <<engine, cfg>>

\* tick(now): achordion_task().  It acts only in UNSETTLED, once the hold
\* timeout of the pending key has elapsed.
\* Mutant: the timer is compared without looking at the state.
TickSettles_StaleTimer(t) == tap_hold_keycode # KC_NO /\ t >= hold_timer
TickSettles(t) == achordion_state = "UNSETTLED" /\ t >= hold_timer

Tick(dt) ==
  /\ Idle
  /\ now + dt <= MaxTime
  /\ now' = now + dt
  /\ last' = "tick"
  /\ IF TickSettles(now + dt)
       THEN /\ todo' = <<Do("settle_as_hold")>>
            /\ hist' = Append(hist, SettlingTick)
       ELSE UNCHANGED <<todo, hist>>
  /\ UNCHANGED <<engine, cfg, down, out>>

----------------------------------------------------------------------------

Next ==
  \/ \E key \in Keys, pressed \in BOOLEAN, dt \in 0..MaxDt :
       KeyEvent(key, pressed, dt)
  \/ \E dt \in 0..MaxDt : Tick(dt)
  \/ process_achordion
  \/ release_pending
  \/ host_process
  \/ process_eager_mods_action
  \/ recursively_process_record
  \/ recursively_process_record_return
  \/ settle_as_hold
  \/ settle_as_tap
  \/ settle_as_tap_flush
  \/ settle_as_tap_release

Spec == Init /\ [][Next]_vars

----------------------------------------------------------------------------
(* What the host received, read back from `out'. *)

IsReplay(o) == o.kind = "event" /\ ~o.orig
IsOriginal(o) == o.kind = "event" /\ o.orig
IsTapPress(o) == IsReplay(o) /\ o.pressed /\ o.count > 0
IsTapRelease(o) == IsReplay(o) /\ ~o.pressed /\ o.count > 0
IsHoldPress(o) == IsReplay(o) /\ o.pressed /\ o.count = 0
IsHoldRelease(o) == IsReplay(o) /\ ~o.pressed /\ o.count = 0
IsEagerPress(o) == o.kind = "ACTION_MODS_TAP_KEY" /\ o.pressed /\ o.mods # 0

Replays == SelectSeq(out, IsReplay)
Originals == SelectSeq(out, IsOriginal)

\* The press cycle began with the press of dual-role key k.
CycleOf(k) ==
  /\ is_dual_role_key(k)
  /\ hist # <<>>
  /\ hist[1] = KeyTransition(k, TRUE)

PendingReleased(k) ==
  \E i \in DOMAIN hist : hist[i] = KeyTransition(k, FALSE)

----------------------------------------------------------------------------
(* C1: a dual-role key pressed in RELEASED and released before its hold    *)
(* timeout, with no other key event and no settling tick in between, is    *)
(* replayed as exactly one tap press followed by exactly one tap release,  *)
(* with no hold press, and the engine is RELEASED once the release has     *)
(* been handled.                                                           *)
C1_IsolatedTap ==
  \A k \in DualRoleKeys :
    (Idle /\ hist = <<KeyTransition(k, TRUE), KeyTransition(k, FALSE)>>)
      => /\ Len(Replays) = 2
         /\ IsTapPress(Replays[1]) /\ Replays[1].key = k
         /\ IsTapRelease(Replays[2]) /\ Replays[2].key = k
         /\ \A i \in DOMAIN out : ~IsHoldPress(out[i])
         /\ achordion_state = "RELEASED"

C1_Witness ==
  /\ Idle
  /\ hist = <<KeyTransition("MT_B", TRUE), KeyTransition("MT_B", FALSE)>>
  /\ Len(Replays) = 2
  /\ achordion_state = "RELEASED"

(* C2: a dual-role key that stays down past its hold timeout with no key   *)
(* event in between is settled as hold by the first tick at or after the   *)
(* timeout: no tick at or after the timeout leaves the key unsettled; once *)
(* that tick has returned and until the key's release the state is HOLDING *)
(* with a hold press replayed or the eager mods active; and no tap press   *)
(* or tap release is emitted in that press cycle.                          *)
C2_HoldAfterTimeout ==
  /\ (Idle /\ last = "tick" /\ achordion_state = "UNSETTLED")
       => now < hold_timer
  /\ \A k \in DualRoleKeys :
       (CycleOf(k) /\ Len(hist) >= 2 /\ hist[2] = SettlingTick)
         => /\ \A i \in DOMAIN out : ~IsTapPress(out[i]) /\ ~IsTapRelease(out[i])
            /\ (Idle /\ ~PendingReleased(k))
                 => /\ achordion_state = "HOLDING"
                    /\ tap_hold_keycode = k
                    /\ \/ eager_mods # 0
                       \/ \E i \in DOMAIN out :
                            IsHoldPress(out[i]) /\ out[i].key = k

C2_Witness ==
  /\ Idle
  /\ hist = <<KeyTransition("MT_B", TRUE), SettlingTick>>
  /\ achordion_state = "HOLDING"
  /\ \E i \in DOMAIN out : IsHoldPress(out[i])

\* The second event of the cycle is the press of key j while k is pending.
SecondKey(k, j) ==
  /\ CycleOf(k)
  /\ j # k
  /\ Len(hist) = 2
  /\ hist[2] = KeyTransition(j, TRUE)

(* C3: when a second key is pressed while the pending key is unsettled and *)
(* the pair is chord-eligible, the pending key is settled as hold (state   *)
(* HOLDING, hold press delivered or eager mods in effect) before the       *)
(* second key's press is delivered to the host, and that press is          *)
(* delivered exactly once.                                                 *)
C3_HoldBeforeSecondKey ==
  \A k \in DualRoleKeys, j \in Keys :
    (SecondKey(k, j) /\ chord_eligible(k, j))
      => /\ \A i \in DOMAIN out :
              IsOriginal(out[i])
                => /\ out[i].key = j /\ out[i].pressed
                   /\ out[i].st = "HOLDING"
                   /\ \E m \in 1..(i - 1) :
                        \/ IsHoldPress(out[m]) /\ out[m].key = k
                        \/ IsEagerPress(out[m]) /\ eager_mods # 0
         /\ Len(Originals) <= 1
         /\ Idle => Len(Originals) = 1 /\ achordion_state = "HOLDING"

C3_Witness ==
  /\ Idle
  /\ SecondKey("MT_B", "K_S")
  /\ Len(Originals) = 1
  /\ \E i \in DOMAIN out : IsHoldPress(out[i])

(* C4: when a second key is pressed while the pending key is unsettled and *)
(* the pair is not chord-eligible, the pending key is settled as tap       *)
(* (state TAPPING, its tap press and tap release both delivered) before    *)
(* the second key's press is delivered to the host, and that press is      *)
(* delivered exactly once.                                                 *)
C4_TapBeforeSecondKey ==
  \A k \in DualRoleKeys, j \in Keys :
    (SecondKey(k, j) /\ ~chord_eligible(k, j))
      => /\ \A i \in DOMAIN out :
              IsOriginal(out[i])
                => /\ out[i].key = j /\ out[i].pressed
                   /\ out[i].st = "TAPPING"
                   /\ \E m \in 1..(i - 1), n \in 1..(i - 1) :
                        /\ m < n
                        /\ IsTapPress(out[m]) /\ out[m].key = k
                        /\ IsTapRelease(out[n]) /\ out[n].key = k
         /\ Len(Originals) <= 1
         /\ Idle => Len(Originals) = 1 /\ achordion_state = "TAPPING"

C4_Witness ==
  /\ Idle
  /\ SecondKey("MT_A", "K_S")
  /\ Len(Originals) = 1
  /\ Len(Replays) = 2

(* C5: a tick in RELEASED, TAPPING or HOLDING emits nothing and leaves the *)
(* state, the pending key and its record, the eager mods and the timers    *)
(* unchanged, also when the hold timeout of the settled key has elapsed.   *)
C5_TickOnlyActsWhenUnsettled ==
  [][(Idle /\ last' = "tick" /\ achordion_state # "UNSETTLED")
       => UNCHANGED <<achordion_state, tap_hold_keycode, tap_hold_record,
                      hold_timer, eager_mods,
                      pressed_another_key_before_release, streak_timer,
                      out, todo>>]_vars

C5_Witness ==
  /\ Idle
  /\ last = "tick"
  /\ achordion_state = "TAPPING"
  /\ now > hold_timer
  /\ Len(Replays) = 2

(* C6: on_key_event invoked in RECURSING lets the host process the event   *)
(* and changes nothing: the state, the pending key and its record, the     *)
(* eager mods, the timers and pressed_another_key_before_release.          *)
C6_RecursingPassesThrough ==
  [][(At("process_achordion") /\ achordion_state = "RECURSING")
       => /\ UNCHANGED <<achordion_state, tap_hold_keycode, tap_hold_record,
                         hold_timer, eager_mods,
                         pressed_another_key_before_release, streak_timer,
                         out>>
          /\ todo' = <<Call("host_process", Head(todo).rec, "-",
                            Head(todo).orig)>> \o Tail(todo)]_vars

C6_Witness ==
  /\ At("host_process")
  /\ achordion_state = "RECURSING"
  /\ ~Head(todo).orig
  /\ ~Head(todo).rec.pressed
  /\ Head(todo).rec.key = tap_hold_keycode

(* C7: every replayed event reaches the host while the state is RECURSING, *)
(* no replay starts while the state is RECURSING, at most one replay is in *)
(* progress, and a replayed event only ever meets the RECURSING case of    *)
(* on_key_event, so it triggers no settlement and no replay.               *)
C7_ReplayDepthAtMostOne ==
  /\ Depth <= 1
  /\ At("recursively_process_record") => achordion_state # "RECURSING"
  /\ \A i \in DOMAIN out : IsReplay(out[i]) => out[i].st = "RECURSING"
  /\ (At("process_achordion") /\ ~Head(todo).orig)
       => achordion_state = "RECURSING"
  /\ Depth = 1
       => Head(todo).op \in {"process_achordion", "host_process", "rpr_exit"}

C7_Witness ==
  /\ Depth = 1
  /\ At("host_process")
  /\ ~Head(todo).orig
  /\ Len(Replays) = 1

(* C8: whenever control is back in the polling loop the state is one of    *)
(* RELEASED, UNSETTLED, TAPPING and HOLDING, never RECURSING.              *)
C8_NeverRecursingBetweenCalls ==
  Idle => achordion_state \in {"RELEASED", "UNSETTLED", "TAPPING", "HOLDING"}

C8_Witness ==
  /\ Idle
  /\ achordion_state = "HOLDING"
  /\ Len(Replays) = 1

(* C9: between calls a pending key is recorded iff the state is UNSETTLED, *)
(* TAPPING or HOLDING; initially and after the release of the pending key  *)
(* the state is RELEASED and no pending key is recorded.                   *)
C9_PendingKeyIffActive ==
  /\ Idle
       => (tap_hold_keycode # KC_NO
             <=> achordion_state \in {"UNSETTLED", "TAPPING", "HOLDING"})
  /\ hist = <<>> => achordion_state = "RELEASED" /\ tap_hold_keycode = KC_NO
  /\ \A k \in DualRoleKeys :
       (Idle /\ CycleOf(k) /\ hist[Len(hist)] = KeyTransition(k, FALSE))
         => achordion_state = "RELEASED" /\ tap_hold_keycode = KC_NO

C9_Witness ==
  /\ Idle
  /\ \E j \in Keys :
       hist = <<KeyTransition("MT_A", TRUE), KeyTransition(j, TRUE),
                KeyTransition("MT_A", FALSE)>>
  /\ achordion_state = "RELEASED"
  /\ tap_hold_keycode = KC_NO

(* C10: between calls nonzero eager mods imply that the state is UNSETTLED *)
(* or HOLDING and that the pending key is configured for eager mods; the   *)
(* eager mods are zero in RELEASED and in TAPPING.                         *)
C10_EagerModsOnlyWhilePending ==
  Idle => /\ eager_mods # 0
             => /\ achordion_state \in {"UNSETTLED", "HOLDING"}
                /\ eager_mods_enabled(tap_hold_keycode)
          /\ achordion_state \in {"RELEASED", "TAPPING"} => eager_mods = 0

\* on_key_event is handling the press of a dual-role key other than the
\* pending key.
SecondDualRolePress ==
  /\ At("process_achordion")
  /\ Intake.orig
  /\ Intake.rec.pressed
  /\ is_dual_role_key(Intake.rec.key)
  /\ tap_hold_keycode # KC_NO
  /\ Intake.rec.key # tap_hold_keycode

StateOutsideReplay ==
  IF achordion_state = "RECURSING"
       /\ \E i \in DOMAIN todo : todo[i].op = "rpr_exit"
    THEN todo[CHOOSE i \in DOMAIN todo :
                /\ todo[i].op = "rpr_exit"
                /\ \A m \in DOMAIN todo : todo[m].op = "rpr_exit" => m <= i].from
    ELSE achordion_state

(* C12: a settled decision is final: from TAPPING the engine goes only to  *)
(* RELEASED (never to HOLDING or UNSETTLED), from HOLDING only to RELEASED *)
(* (never to TAPPING or UNSETTLED), and it goes from TAPPING or HOLDING to *)
(* RELEASED only while handling the release of the pending key, never in a *)
(* tick or in the handling of another key's press or release.              *)
C12_SettledDecisionIsFinal ==
  [][/\ StateOutsideReplay = "TAPPING"
          => StateOutsideReplay' \in {"TAPPING", "RELEASED"}
     /\ StateOutsideReplay = "HOLDING"
          => StateOutsideReplay' \in {"HOLDING", "RELEASED"}
     /\ (StateOutsideReplay \in {"TAPPING", "HOLDING"}
           /\ StateOutsideReplay' = "RELEASED")
          => /\ last = "key"
             /\ hist[Len(hist)] = KeyTransition(tap_hold_keycode, FALSE)]_vars

C12_Witness ==
  /\ Idle
  /\ hist = <<KeyTransition("MT_A", TRUE), KeyTransition("K_S", TRUE),
              KeyTransition("K_S", FALSE), KeyTransition("MT_A", FALSE)>>
  /\ Len(Replays) = 2
  /\ achordion_state = "RELEASED"
  /\ now > hold_timer

\* on_key_event is handling the press of a dual-role key received in
\* RELEASED.
LatchingPress ==
  /\ At("process_achordion")
  /\ Intake.orig
  /\ achordion_state = "RELEASED"
  /\ Intake.rec.pressed
  /\ is_dual_role_key(Intake.rec.key)

(* C13: the press of a dual-role key received in RELEASED is latched: the  *)
(* state becomes UNSETTLED, the key and its record become the pending key, *)
(* the hold timer is the event time plus the host's timeout for the key,   *)
(* the event is not passed to the host, and as long as the press is the    *)
(* only event of its cycle nothing is replayed and the key stays pending.  *)
C13_DualRolePressIsLatched ==
  [][/\ LatchingPress
          => /\ achordion_state' = "UNSETTLED"
             /\ tap_hold_keycode' = Intake.rec.key
             /\ tap_hold_record' = Intake.rec
             /\ hold_timer' = Intake.rec.time + hold_timeout(Intake.rec.key)
             /\ out' = out
             /\ \A i \in DOMAIN todo' : todo'[i].op # "host_process"
     /\ \A k \in DualRoleKeys :
          hist' = <<KeyTransition(k, TRUE)>>
            => /\ \A i \in DOMAIN out' : out'[i].kind # "event"
               /\ Idle'
                    => /\ achordion_state' = "UNSETTLED"
                       /\ tap_hold_keycode' = k
                       /\ tap_hold_record'.pressed
                       /\ tap_hold_record'.count = 0
                       /\ hold_timer' =
                            tap_hold_record'.time + hold_timeout(k)]_vars

C13_Witness ==
  /\ Idle
  /\ hist = <<KeyTransition("MT_B", TRUE)>>
  /\ last = "tick"
  /\ achordion_state = "UNSETTLED"
  /\ tap_hold_keycode = "MT_B"
  /\ out = <<>>

IsPlainModsRelease(o) == o.kind = "ACTION_MODS" /\ ~o.pressed
IsModTapRelease(o) == o.kind = "ACTION_MODS_TAP_KEY" /\ ~o.pressed

(* C14: settle_as_tap with eager mods applied emits one plain ACTION_MODS  *)
(* release of exactly the eager mods and clears the eager mods in the same *)
(* step, before the tap press is replayed; with no eager mods it emits     *)
(* nothing before the replay.  In a cycle settled as tap the plain release *)
(* precedes the tap press, the eager mods are zero from then on, and no    *)
(* mod-tap release and no hold release is emitted.                         *)
C14_EagerModsReleasedBeforeTap ==
  [][/\ At("settle_as_tap")
          => /\ eager_mods # 0
                  => /\ out' = Append(out,
                                 Output("ACTION_MODS",
                                        [tap_hold_record EXCEPT
                                           !.pressed = FALSE],
                                        eager_mods, achordion_state, FALSE))
                     /\ eager_mods' = 0
             /\ eager_mods = 0 => out' = out /\ eager_mods' = 0
             /\ At("recursively_process_record")'
     /\ \A i \in DOMAIN out' :
          /\ IsTapPress(out'[i])
               => /\ eager_mods' = 0
                  /\ \A m \in DOMAIN out' :
                       ~IsModTapRelease(out'[m]) /\ ~IsHoldRelease(out'[m])
                  /\ \A m \in DOMAIN out' :
                       IsEagerPress(out'[m])
                         => \E n \in (m + 1)..(i - 1) :
                              /\ IsPlainModsRelease(out'[n])
                              /\ out'[n].mods = out'[m].mods
          /\ IsPlainModsRelease(out'[i])
               => /\ \E m \in 1..(i - 1) :
                       IsEagerPress(out'[m]) /\ out'[m].mods = out'[i].mods
                  /\ \A m \in DOMAIN out' :
                       IsPlainModsRelease(out'[m]) => m = i]_vars

C14_Witness ==
  /\ Idle
  /\ hist = <<KeyTransition("MT_A", TRUE), KeyTransition("MT_A", FALSE)>>
  /\ Len(out) >= 4
  /\ IsEagerPress(out[1])
  /\ IsPlainModsRelease(out[2])
  /\ IsTapPress(out[3])
  /\ eager_mods = 0

\* Index in `out' of the tap release that belongs to the tap press at i:
\* after the report and, when TAP_CODE_DELAY > 0, after the wait.
TapReleaseIndex(i) == IF cfg.tap_code_delay > 0 THEN i + 3 ELSE i + 2

(* C15: a settlement as tap produces exactly this sequence: the pending    *)
(* record replayed as a press with tap count 1 and the interrupted flag,   *)
(* send_keyboard_report, the wait of TAP_CODE_DELAY (one wait_ms when the  *)
(* delay is positive, none when it is zero), the same record replayed as a *)
(* release; both replays reach the host in RECURSING, the steps between    *)
(* them run in TAPPING, and the state is TAPPING when the last replay      *)
(* returns.                                                                *)
C15_TapSequence ==
  [][/\ At("settle_as_tap_flush")'
          => IsTapPress(out'[Len(out')])
     /\ (At("rpr_exit") /\ out # <<>>
           /\ (IsTapPress(out[Len(out)]) \/ IsTapRelease(out[Len(out)])))
          => achordion_state' = "TAPPING"
     /\ \A i \in DOMAIN out' :
          /\ IsTapPress(out'[i])
               => /\ out'[i].count = 1
                  /\ out'[i].interrupted
                  /\ out'[i].st = "RECURSING"
                  /\ out'[i].key = hist'[1].key
                  /\ i + 1 <= Len(out')
                       => /\ out'[i + 1].kind = "send_keyboard_report"
                          /\ out'[i + 1].st = "TAPPING"
                  /\ (cfg.tap_code_delay > 0 /\ i + 2 <= Len(out'))
                       => /\ out'[i + 2].kind = "wait_ms"
                          /\ out'[i + 2].st = "TAPPING"
                  /\ TapReleaseIndex(i) <= Len(out')
                       => /\ IsTapRelease(out'[TapReleaseIndex(i)])
                          /\ out'[TapReleaseIndex(i)] =
                               [out'[i] EXCEPT !.pressed = FALSE]
                  /\ Idle' => TapReleaseIndex(i) <= Len(out')
          /\ IsTapRelease(out'[i])
               => \E m \in 1..(i - 1) :
                    IsTapPress(out'[m]) /\ TapReleaseIndex(m) = i
          /\ out'[i].kind \in {"send_keyboard_report", "wait_ms"}
               => \E m \in 1..(i - 1) :
                    IsTapPress(out'[m]) /\ i < TapReleaseIndex(m)]_vars

C15_Witness ==
  /\ Idle
  /\ cfg.tap_code_delay > 0
  /\ achordion_state = "TAPPING"
  /\ Len(out) >= 4
  /\ \E i \in DOMAIN out :
       /\ IsTapPress(out[i])
       /\ out[i + 1].kind = "send_keyboard_report"
       /\ out[i + 2].kind = "wait_ms"
       /\ IsTapRelease(out[i + 3])

\* recursively_process_record(&tap_hold_record, STATE_HOLDING), the replay
\* of settle_as_hold, is in progress.
HoldReplayInProgress ==
  \E i \in DOMAIN todo : todo[i].op = "rpr_exit" /\ todo[i].st = "HOLDING"

HoldPresses == SelectSeq(out, IsHoldPress)

(* C16: settle_as_hold with nonzero eager mods replays nothing, keeps the  *)
(* eager mods and sets the state to HOLDING; with zero eager mods it       *)
(* replays the stored pending press record exactly once, under RECURSING,  *)
(* and the state is HOLDING when the replay returns.  The pending key, its *)
(* record and the eager mods are unchanged throughout.                     *)
C16_SettleAsHold ==
  [][/\ (At("settle_as_hold") /\ eager_mods # 0)
          => /\ achordion_state' = "HOLDING"
             /\ todo' = Tail(todo)
             /\ UNCHANGED <<out, eager_mods, tap_hold_keycode,
                            tap_hold_record>>
     /\ (At("settle_as_hold") /\ eager_mods = 0)
          => /\ todo' = <<Call("recursively_process_record", ZeroRecord,
                               "HOLDING", FALSE)>> \o Tail(todo)
             /\ HoldPresses = <<>>
             /\ UNCHANGED <<out, eager_mods, tap_hold_keycode,
                            tap_hold_record, achordion_state>>
     /\ (At("recursively_process_record") /\ Head(todo).st = "HOLDING")
          => /\ HoldReplayInProgress'
             /\ UNCHANGED <<eager_mods, tap_hold_keycode, tap_hold_record>>
     /\ HoldReplayInProgress
          => /\ achordion_state = "RECURSING"
             /\ UNCHANGED <<eager_mods, tap_hold_keycode, tap_hold_record>>
             /\ Len(HoldPresses') <= 1
     /\ (At("rpr_exit") /\ Head(todo).st = "HOLDING")
          => /\ achordion_state' = "HOLDING"
             /\ out' = out
             /\ Len(HoldPresses) = 1
             /\ out[Len(out)] =
                  Output("event", tap_hold_record, 0, "RECURSING", FALSE)
             /\ tap_hold_record.pressed /\ tap_hold_record.count = 0
             /\ tap_hold_record.key = tap_hold_keycode
     /\ \A i \in DOMAIN out' : IsHoldPress(out'[i]) => eager_mods' = 0]_vars

C16_Witness ==
  /\ Idle
  /\ achordion_state = "HOLDING"
  /\ tap_hold_keycode = "MT_B"
  /\ eager_mods = 0
  /\ Len(HoldPresses) = 1
  /\ hist = <<KeyTransition("MT_B", TRUE), SettlingTick>>

\* A replay is in progress: recursively_process_record() has set RECURSING
\* and has not yet returned.
InReplay ==
  /\ Depth = 1
  /\ Head(todo).op \in {"process_achordion", "host_process", "rpr_exit"}

\* The pairs (state before the replay, state after it) of the callers.
ReplayTransitions ==
  {<<"UNSETTLED", "HOLDING">>, <<"UNSETTLED", "TAPPING">>,
   <<"TAPPING", "TAPPING">>, <<"HOLDING", "RELEASED">>}

(* C17 as stated: the state is RECURSING only during one replay call, and  *)
(* when the call ends the state is the one the engine was in immediately   *)
(* before the replay began.                                                *)
C17_PriorStateRestored ==
  [][/\ achordion_state' = "RECURSING" => InReplay'
     /\ At("rpr_exit") => achordion_state' = Head(todo).from]_vars

(* C17 as amended: the state is RECURSING exactly during one replay call,  *)
(* and when the call ends the state is the state argument of the call:     *)
(* HOLDING for the hold press (called in UNSETTLED), TAPPING for the tap   *)
(* press (called in UNSETTLED) and the tap release (called in TAPPING),    *)
(* RELEASED for the hold release (called in HOLDING).                      *)
C17_StateArgumentAfterReplay ==
  [][/\ achordion_state' = "RECURSING" <=> InReplay'
     /\ At("rpr_exit")
          => /\ achordion_state = "RECURSING"
             /\ achordion_state' = Head(todo).st
             /\ <<Head(todo).from, Head(todo).st>> \in ReplayTransitions]_vars

C17_Witness ==
  /\ At("rpr_exit")
  /\ achordion_state = "RECURSING"
  /\ Head(todo).from = "UNSETTLED"
  /\ Head(todo).st = "HOLDING"
  /\ Len(HoldPresses) = 1

IsEagerRelease(o) == IsPlainModsRelease(o) \/ IsModTapRelease(o)

\* Output o is of the named kind.
IsOfKind(kind, o) ==
  CASE kind = "IsHoldPress" -> IsHoldPress(o)
    [] kind = "IsHoldRelease" -> IsHoldRelease(o)
    [] kind = "IsEagerPress" -> IsEagerPress(o)
    [] kind = "IsEagerRelease" -> IsEagerRelease(o)
    [] kind = "IsTapPress" -> IsTapPress(o)

\* Positions in `out' of the outputs of the named kind.
Positions(kind) == {i \in DOMAIN out : IsOfKind(kind, out[i])}

\* Every hold press has exactly one hold release after it and every eager
\* press exactly one release of the same mods after it; there is at most
\* one of each in a press cycle and no release without its press.
HoldsBalanced ==
  /\ Cardinality(Positions("IsHoldPress")) <= 1
  /\ Cardinality(Positions("IsHoldPress"))
       = Cardinality(Positions("IsHoldRelease"))
  /\ \A i \in Positions("IsHoldPress"), j \in Positions("IsHoldRelease") :
       i < j /\ out[i].key = out[j].key
  /\ Cardinality(Positions("IsEagerPress")) <= 1
  /\ Cardinality(Positions("IsEagerPress"))
       = Cardinality(Positions("IsEagerRelease"))
  /\ \A i \in Positions("IsEagerPress"),
        j \in Positions("IsEagerRelease") :
       i < j /\ out[i].mods = out[j].mods /\ out[i].key = out[j].key

(* C18: every hold that takes effect is released exactly once.  When the   *)
(* release of the pending key has been handled in a cycle settled as hold, *)
(* the last output is the release that matches what was applied (the hold  *)
(* release replay after a hold press, the mod-tap release of the eager     *)
(* mods after an eager press), the pending key is cleared and the state is *)
(* RELEASED; and whenever the engine is back in RELEASED, in particular    *)
(* once every key is up, every hold press and every eager press of the     *)
(* cycle has exactly one matching release.                                 *)
C18_HoldReleasedOnce ==
  /\ (Idle /\ achordion_state = "RELEASED") => HoldsBalanced
  /\ (Idle /\ down = {}) => achordion_state = "RELEASED"
  /\ \A k \in DualRoleKeys :
       (Idle /\ CycleOf(k) /\ PendingReleased(k)
          /\ Positions("IsTapPress") = {})
         => /\ achordion_state = "RELEASED"
            /\ tap_hold_keycode = KC_NO
            /\ out[Len(out)].key = k
            /\ IF eager_mods_enabled(k)
                 THEN /\ IsModTapRelease(out[Len(out)])
                      /\ out[Len(out)].mods = hold_mods(k)
                      /\ Positions("IsHoldPress") = {}
                 ELSE /\ IsHoldRelease(out[Len(out)])
                      /\ Positions("IsEagerPress") = {}

C18_Witness ==
  /\ Idle
  /\ down = {}
  /\ hist = <<KeyTransition("MT_B", TRUE), KeyTransition("K_S", TRUE),
              KeyTransition("K_S", FALSE), KeyTransition("MT_B", FALSE)>>
  /\ Cardinality(Positions("IsHoldPress")) = 1
  /\ IsHoldRelease(out[Len(out)])

\* on_key_event is handling an event of a key other than the pending key.
OtherKeyEvent ==
  /\ At("process_achordion")
  /\ Intake.orig
  /\ tap_hold_keycode # KC_NO
  /\ Intake.rec.key # tap_hold_keycode

(* C19: no release settles the pending key as hold, and events of other    *)
(* keys do not touch a settled key: the release of another key in          *)
(* UNSETTLED, and any press or release of another key in TAPPING or        *)
(* HOLDING, is passed to the host with the state, the pending key and      *)
(* record, the eager mods and the hold timer unchanged and with nothing    *)
(* replayed; a settlement as hold is only started by a tick or by a press. *)
C19_OtherKeysPassThrough ==
  [][/\ (OtherKeyEvent
           /\ \/ achordion_state = "UNSETTLED" /\ ~Intake.rec.pressed
              \/ achordion_state \in {"TAPPING", "HOLDING"})
          => /\ UNCHANGED <<achordion_state, tap_hold_keycode,
                            tap_hold_record, hold_timer, eager_mods, out>>
             /\ todo' = <<Call("host_process", Intake.rec, "-", TRUE)>>
     /\ (At("host_process") /\ Head(todo).orig)
          => /\ UNCHANGED <<achordion_state, tap_hold_keycode,
                            tap_hold_record, hold_timer, eager_mods>>
             /\ out' = Append(out, Output("event", Head(todo).rec, 0,
                                          achordion_state, TRUE))
             /\ Idle'
     /\ At("settle_as_hold")
          => \/ last = "tick"
             \/ last = "key" /\ hist[Len(hist)].pressed]_vars

C19_Witness ==
  /\ Idle
  /\ hist = <<KeyTransition("MT_B", TRUE), KeyTransition("K_D", FALSE)>>
  /\ achordion_state = "UNSETTLED"
  /\ tap_hold_keycode = "MT_B"
  /\ Replays = <<>>
  /\ Len(Originals) = 1

----------------------------------------------------------------------------
(* update_streak_timer() on its own, over the 16-bit range of timestamps. *)

\* The timestamps tried: both ends of the range of a uint16_t.
StreakTimes == 0..MaxStamp \cup (UINT16_MAX - MaxStamp)..UINT16_MAX

StreakInit == Init /\ cfg.streak

\* One call update_streak_timer(keycode, record) with record->event.time = t
\* in a build with ACHORDION_STREAK; the event is kept in `hist' and `now'.
streak_update(keycode, t) ==
  /\ streak_timer' = update_streak_timer(keycode, Record(keycode, TRUE, t, 0, FALSE))
  /\ now' = t
  /\ hist' = <<KeyTransition(keycode, TRUE)>>
  /\ last' = "key"
  /\ UNCHANGED <<achordion_state, tap_hold_keycode, tap_hold_record,
                 hold_timer, eager_mods, pressed_another_key_before_release,
                 cfg, down, todo, out>>

StreakNext == \E keycode \in Keys, t \in StreakTimes : streak_update(keycode, t)

StreakSpec == StreakInit /\ [][StreakNext]_vars

(* C20: with the typing streak compiled in, after                          *)
(* update_streak_timer(keycode, record) the streak timer is 0 exactly when *)
(* streak_continue(keycode) is false; when the streak continues it is the  *)
(* 16-bit timestamp of the event with its lowest bit set, hence odd and    *)
(* nonzero for every timestamp, 0 included, still a 16-bit value, and at   *)
(* most 1 above the true timestamp.                                        *)
C20_StreakTimer ==
  last = "key" =>
    LET keycode == hist[1].key IN
      /\ streak_timer \in 0..UINT16_MAX
      /\ streak_timer = 0 <=> ~achordion_streak_continue(keycode)
      /\ achordion_streak_continue(keycode) =>
           /\ streak_timer % 2 = 1
           /\ streak_timer \div 2 = now \div 2
           /\ streak_timer - now \in {0, 1}

C20_Witness ==
  /\ last = "key"
  /\ achordion_streak_continue(hist[1].key)
  /\ now = 0
  /\ streak_timer = 1

====
